---- MODULE Spec2Model ----
(***************************************************************************)
(* Bridge connection and telemetry lifecycle of the Hue outdoor widget.    *)
(*                                                                         *)
(* Two documents exist, the widget at "/" (TemperatureWidget.tsx) and the  *)
(* setup screen at "/setup" (HueSetup).  Every route change in the source  *)
(* is an assignment to window.location.href, i.e. a full document load:    *)
(* the component state of the page that is left, its timers and its        *)
(* pending fetch continuations are discarded, and the new page starts from *)
(* its useState initial values.  Only localStorage survives.               *)
(*                                                                         *)
(* Optional values (null / undefined) are sequences of length 0 or 1.      *)
(* TemperatureData.lastUpdated (wall-clock time) is not modelled.          *)
(***************************************************************************)
EXTENDS Integers, Sequences, FiniteSets, TLC

\* ---------------------------------------------------------------- bounds
MaxPolls == 3
MaxSessions == 2
MaxSensors == 2

\* ------------------------------------------------------ program constants
maxAttempts == 30
LinkButtonNotPressed == 101
TemperatureScale == 100

null == <<>>
Some(x) == <<x>>

\* ------------------------------------------------------------ input data
BridgeAddresses == {"192.168.1.10", "192.168.1.20"}
Usernames == {"abc123", "xyz789"}

\* result[0] of a registration response: optional success.username and
\* optional error.type
RegEntries ==
  [username : {null, Some("abc123"), Some("xyz789"), Some("")},
   errorType : {null}]
  \cup
  [username : {null}, errorType : {Some(LinkButtonNotPressed), Some(1)}]

\* what awaiting fetch()/response.json() of POST /api yields
RegistrationResponses ==
  {[kind |-> "reject", body |-> <<>>], [kind |-> "badjson", body |-> <<>>],
   [kind |-> "json", body |-> <<>>]}
  \cup {[kind |-> "json", body |-> <<e>>] : e \in RegEntries}

\* what awaiting fetch()/response.json() of the discovery endpoint yields
DiscoveryResponses ==
  {[kind |-> "reject", body |-> <<>>],
   [kind |-> "json", body |-> <<>>],
   [kind |-> "json", body |-> <<"192.168.1.10">>],
   [kind |-> "json", body |-> <<"192.168.1.20", "192.168.1.10">>]}

\* ------------------------------------------------------- Credential Store
\* JSON.stringify of {bridgeIp, username}: the text is the list of its
\* key/value pairs in property order
JSONstringify(cfg) ==
  << <<"bridgeIp", cfg.bridgeIp>>, <<"username", cfg.username>> >>

Member(text, key) ==
  LET hits == {i \in 1..Len(text) : text[i][1] = key}
  IN  IF hits = {} THEN null ELSE Some(text[CHOOSE i \in hits : \A j \in hits : j <= i][2])

\* JSON.parse of a stored text: an object whose members may be undefined
JSONparse(text) ==
  [bridgeIp |-> Member(text, "bridgeIp"), username |-> Member(text, "username")]

\* ------------------------------------------------------------- variables
VARIABLES
  page,            \* document currently loaded: "widget" or "setup"
  hueConfig,       \* localStorage item 'hueConfig': null or Some(text)
  toast,           \* title of the last toast shown on this page
  bridgeIp,        \* HueSetup state
  isConnecting,
  step,
  username,
  discovery,       \* number of discovery requests in flight
  lastDiscovery,   \* the discovery answer that was handled last
  sessions,        \* pollForUser closures that still exist or ended last
  started,         \* startPairing calls since the page loaded
  config,          \* TemperatureWidget state
  temperatureData,
  isConnected,
  isLoading,
  phase,           \* "load" | "effect" | "ready": effects still to run
  interval,        \* TRUE while the setInterval timer is armed
  polls,           \* ids of the sensor requests in flight
  issued,          \* sensor requests issued since the page loaded
  lastPoll,        \* the sensor request that completed last: id, response
  lastCall         \* outcome of the last poll or registration call to
                   \* complete: "none", "ok" or "failed"

setupVars == <<bridgeIp, isConnecting, step, username, discovery,
               lastDiscovery, sessions, started>>
widgetVars == <<config, temperatureData, isConnected, isLoading, phase,
                interval, polls, issued, lastPoll>>
vars == <<page, hueConfig, toast, lastCall, setupVars, widgetVars>>

NoResponse == [kind |-> "none", body |-> <<>>]
NoPoll == [id |-> 0, response |-> NoResponse]

\* useState initial values of HueSetup (part_000:10-13)
SetupInitial ==
  /\ bridgeIp = ""
  /\ isConnecting = FALSE
  /\ step = "input"
  /\ username = ""
  /\ discovery = 0
  /\ lastDiscovery = NoResponse
  /\ sessions = <<>>
  /\ started = 0

\* useState initial values of TemperatureWidget (TemperatureWidget.tsx:19-22)
WidgetInitial ==
  /\ config = null
  /\ temperatureData = null
  /\ isConnected = FALSE
  /\ isLoading = FALSE
  /\ phase = "load"
  /\ interval = FALSE
  /\ polls = {}
  /\ issued = 0
  /\ lastPoll = NoPoll

Init ==
  /\ page = "widget"
  /\ hueConfig = null
  /\ toast = ""
  /\ lastCall = "none"
  /\ SetupInitial
  /\ WidgetInitial

\* ------------------------------------------------------------ navigation
\* window.location.href = <route>: the document is replaced
LoadPage(route) ==
  /\ page' = route
  /\ toast' = ""
  /\ bridgeIp' = ""
  /\ isConnecting' = FALSE
  /\ step' = "input"
  /\ username' = ""
  /\ discovery' = 0
  /\ lastDiscovery' = NoResponse
  /\ sessions' = <<>>
  /\ started' = 0
  /\ config' = null
  /\ temperatureData' = null
  /\ isConnected' = FALSE
  /\ isLoading' = FALSE
  /\ phase' = "load"
  /\ interval' = FALSE
  /\ polls' = {}
  /\ issued' = 0
  /\ lastPoll' = NoPoll
  /\ UNCHANGED <<hueConfig, lastCall>>

\* ------------------------------------------------------------- HueSetup
\* variant: the input form stays rendered during pairing
InputAlwaysRendered == page = "setup"

\* the input form (address field, discover, connect, back) is rendered
InputRendered == page = "setup" /\ step = "input"

\* <Input onChange={(e) => setBridgeIp(e.target.value)}>
SetBridgeIp(v) ==
  /\ InputRendered
  /\ bridgeIp' = v
  /\ UNCHANGED <<page, hueConfig, toast, lastCall, isConnecting, step,
                 username, discovery, lastDiscovery, sessions, started,
                 widgetVars>>

\* discoverBridge up to its first await: the request is sent
discoverBridge ==
  /\ InputRendered
  /\ ~isConnecting
  /\ isConnecting' = TRUE
  /\ discovery' = discovery + 1
  /\ UNCHANGED <<page, hueConfig, toast, lastCall, bridgeIp, step, username,
                 lastDiscovery, sessions, started, widgetVars>>

\* variant: the last entry of the list is taken
CandidateLast(bridges) == bridges[Len(bridges)]

\* bridges[0].internalipaddress
Candidate(bridges) == bridges[1]

\* variant: the discovered address is also saved as configuration
discoverBridgeDonePersists(r) ==
  /\ page = "setup"
  /\ discovery > 0
  /\ IF r.kind = "json"
       THEN IF Len(r.body) > 0
              THEN /\ bridgeIp' = Candidate(r.body)
                   /\ toast' = "Bridge Found"
                   /\ hueConfig' = Some(JSONstringify(
                         [bridgeIp |-> Candidate(r.body), username |-> username]))
              ELSE toast' = "No Bridge Found" /\ UNCHANGED <<bridgeIp, hueConfig>>
       ELSE toast' = "Discovery Failed" /\ UNCHANGED <<bridgeIp, hueConfig>>
  /\ isConnecting' = FALSE
  /\ discovery' = discovery - 1
  /\ lastDiscovery' = r
  /\ UNCHANGED <<page, lastCall, step, username, sessions, started,
                 widgetVars>>

\* discoverBridge after the awaits: response handling, catch and finally
discoverBridgeDone(r) ==
  /\ page = "setup"
  /\ discovery > 0
  /\ IF r.kind = "json"
       THEN IF Len(r.body) > 0
              THEN bridgeIp' = Candidate(r.body) /\ toast' = "Bridge Found"
              ELSE toast' = "No Bridge Found" /\ UNCHANGED bridgeIp
       ELSE toast' = "Discovery Failed" /\ UNCHANGED bridgeIp
  /\ isConnecting' = FALSE
  /\ discovery' = discovery - 1
  /\ lastDiscovery' = r
  /\ UNCHANGED <<page, hueConfig, lastCall, step, username, sessions,
                 started, widgetVars>>

\* a pollForUser closure: the captured bridgeIp, the shared attempts
\* counter, requests awaiting a response, armed setTimeout timers; requests,
\* n101, response and state record what the session did: requests sent,
\* 101 answers seen, the last answer, the PairingState it is in, and the
\* state in which the session before it on this page ended ("none" if first)
NewSession(ip, after) ==
  [ip |-> ip, attempts |-> 0, inflight |-> 1, timers |-> 0,
   requests |-> 1, n101 |-> 0, state |-> "AwaitingButtonPress",
   response |-> NoResponse, after |-> after]

\* the PairingState of the session started last on this page
PreviousState ==
  IF sessions = <<>> THEN "none" ELSE sessions[Len(sessions)].state

Live(s) == s.inflight > 0 \/ s.timers > 0

\* <Button onClick={startPairing} disabled={!bridgeIp}> inside the input form
ConnectEnabled == InputRendered /\ bridgeIp # ""

\* variant: attempts is a counter of the component, shared by all sessions
startPairingSharedCounter ==
  /\ ConnectEnabled
  /\ started < MaxSessions
  /\ IF bridgeIp = ""
       THEN /\ toast' = "Bridge IP Required"
            /\ UNCHANGED <<step, sessions, started>>
       ELSE /\ step' = "pairing"
            /\ sessions' = Append(SelectSeq(sessions, Live),
                   [NewSession(bridgeIp, PreviousState) EXCEPT !.attempts =
                      IF sessions = <<>> THEN 0
                      ELSE sessions[Len(sessions)].attempts])
            /\ started' = started + 1
            /\ UNCHANGED toast
  /\ UNCHANGED <<page, hueConfig, lastCall, bridgeIp, isConnecting, username,
                 discovery, lastDiscovery, widgetVars>>

\* startPairing, including the first synchronous part of pollForUser()
startPairing ==
  /\ ConnectEnabled
  /\ started < MaxSessions
  /\ IF bridgeIp = ""
       THEN /\ toast' = "Bridge IP Required"
            /\ UNCHANGED <<step, sessions, started>>
       ELSE /\ step' = "pairing"
            /\ sessions' = Append(SelectSeq(sessions, Live),
                                  NewSession(bridgeIp, PreviousState))
            /\ started' = started + 1
            /\ UNCHANGED toast
  /\ UNCHANGED <<page, hueConfig, lastCall, bridgeIp, isConnecting, username,
                 discovery, lastDiscovery, widgetVars>>

\* variant: result[1] is inspected instead of result[0]
HasUsernameWrongIndex(result) ==
  /\ Len(result) > 1
  /\ result[2].username # null
  /\ result[2].username[1] # ""

\* variant: success.username is only tested for presence
HasUsernameAcceptsEmpty(result) ==
  /\ Len(result) > 0
  /\ result[1].username # null

\* result[0]?.success?.username is truthy
HasUsername(result) ==
  /\ Len(result) > 0
  /\ result[1].username # null
  /\ result[1].username[1] # ""

\* variant: every bridge error is retried
IsNotReadyAnyError(result) ==
  /\ Len(result) > 0
  /\ result[1].errorType # null

\* result[0]?.error?.type === 101
IsNotReady(result) ==
  /\ Len(result) > 0
  /\ result[1].errorType = Some(LinkButtonNotPressed)

\* variant: attempts <= maxAttempts
MayRetryOffByOne(attempts) == attempts <= maxAttempts

\* attempts < maxAttempts, evaluated after attempts++
MayRetry(attempts) == attempts < maxAttempts

\* variant: the retry is armed and pollForUser is also called at once
RetryAlsoPolls(s) ==
  [s EXCEPT !.attempts = @ + 1, !.n101 = @ + 1, !.timers = @ + 1,
            !.inflight = @ + 1, !.requests = @ + 1]

\* variant: the setTimeout call is missing
RetryNotArmed(s) == [s EXCEPT !.attempts = @ + 1, !.n101 = @ + 1]

\* attempts++ and setTimeout(pollForUser, 1000): one more timer is armed
Retry(s) == [s EXCEPT !.attempts = @ + 1, !.n101 = @ + 1, !.timers = @ + 1]

\* variant: the configuration is built from the current candidate address
ConfigToSaveCurrent(captured, current, newUsername) ==
  [bridgeIp |-> current, username |-> newUsername]

\* const config = {bridgeIp, username: newUsername}: bridgeIp is the value
\* the closure captured when startPairing ran, not the current state
ConfigToSave(captured, current, newUsername) ==
  [bridgeIp |-> captured, username |-> newUsername]

\* pollForUser after its awaits, for the closure at position i
pollForUserResponse(i, r) ==
  /\ page = "setup"
  /\ i \in 1..Len(sessions)
  /\ sessions[i].inflight > 0
  /\ LET s == [sessions[i] EXCEPT !.inflight = @ - 1, !.response = r] IN
     IF r.kind = "json" /\ HasUsername(r.body)
       THEN /\ username' = r.body[1].username[1]
            /\ hueConfig' = Some(JSONstringify(
                   ConfigToSave(s.ip, bridgeIp, r.body[1].username[1])))
            /\ step' = "success"
            /\ sessions' = [sessions EXCEPT ![i] = [s EXCEPT !.state = "Success"]]
            /\ lastCall' = "ok"
            /\ UNCHANGED toast
       ELSE IF r.kind = "json" /\ IsNotReady(r.body)
         THEN IF MayRetry(s.attempts + 1)
                THEN /\ sessions' = [sessions EXCEPT ![i] = Retry(s)]
                     /\ lastCall' = "failed"
                     /\ UNCHANGED <<step, toast, username, hueConfig>>
                ELSE /\ sessions' = [sessions EXCEPT ![i] =
                            [s EXCEPT !.attempts = @ + 1, !.n101 = @ + 1,
                                      !.state = "TimedOut"]]
                     /\ step' = "input"
                     /\ toast' = "Pairing Timeout"
                     /\ lastCall' = "failed"
                     /\ UNCHANGED <<username, hueConfig>>
         ELSE /\ sessions' = [sessions EXCEPT ![i] = [s EXCEPT !.state = "HardError"]]
              /\ step' = "input"
              /\ toast' = "Connection Failed"
              /\ lastCall' = "failed"
              /\ UNCHANGED <<username, hueConfig>>
  /\ UNCHANGED <<page, bridgeIp, isConnecting, discovery, lastDiscovery,
                 started, widgetVars>>

\* setTimeout(pollForUser, 1000) fires: the next request is sent
retryTimer(i) ==
  /\ page = "setup"
  /\ i \in 1..Len(sessions)
  /\ sessions[i].timers > 0
  /\ sessions' = [sessions EXCEPT ![i] =
         [@ EXCEPT !.timers = @ - 1, !.inflight = @ + 1, !.requests = @ + 1]]
  /\ UNCHANGED <<page, hueConfig, toast, lastCall, bridgeIp, isConnecting,
                 step, username, discovery, lastDiscovery, started,
                 widgetVars>>

\* completePairing: window.location.href = '/'
completePairing ==
  /\ page = "setup"
  /\ step = "success"
  /\ LoadPage("widget")

\* the Back button of the input form: window.location.href = '/'
back ==
  /\ InputRendered
  /\ LoadPage("widget")

\* ------------------------------------------------------ sensor selection
\* sensor names are strings of characters
Outdoor == <<"o","u","t","d","o","o","r">>
NameOutdoorSensor == <<"O","u","t","d","o","o","r"," ","s","e","n","s","o","r">>
NameGardenOutdoor == <<"g","a","r","d","e","n"," ","o","u","t","d","o","o","r">>
NameHallway == <<"H","a","l","l","w","a","y">>
SensorNames == {NameOutdoorSensor, NameGardenOutdoor, NameHallway}

UpperCase == <<"A","B","C","D","E","F","G","H","I","J","K","L","M",
               "N","O","P","Q","R","S","T","U","V","W","X","Y","Z">>
LowerCase == <<"a","b","c","d","e","f","g","h","i","j","k","l","m",
               "n","o","p","q","r","s","t","u","v","w","x","y","z">>

\* variant: the name is matched case-sensitively
toLowerCaseOmitted(str) == str

\* String.prototype.toLowerCase
toLowerCase(str) ==
  [k \in 1..Len(str) |->
     IF \E u \in 1..26 : UpperCase[u] = str[k]
       THEN LowerCase[CHOOSE u \in 1..26 : UpperCase[u] = str[k]]
       ELSE str[k]]

\* String.prototype.includes
includes(str, sub) ==
  \E k \in 0..(Len(str) - Len(sub)) :
     \A j \in 1..Len(sub) : str[k + j] = sub[j]

\* a sensors response body is the list of its members in the order the
\* bridge wrote them: [id, type, name, temperature], ids distinct
SensorPool ==
  [type : {"ZLLTemperature", "ZLLPresence"},
   name : SensorNames,
   temperature : {null, Some(2150), Some(-550)}]

Member3(id, sn) ==
  [id |-> id, type |-> sn.type, name |-> sn.name, temperature |-> sn.temperature]

\* Object.values of the parsed object: integer-like keys are enumerated in
\* ascending numeric order, whatever their order in the text
RECURSIVE ObjectValues(_)
ObjectValues(body) ==
  IF body = <<>> THEN <<>>
  ELSE LET m == CHOOSE k \in 1..Len(body) :
                   \A j \in 1..Len(body) : body[k].id <= body[j].id
           rest == [k \in 1..(Len(body) - 1) |->
                      IF k < m THEN body[k] ELSE body[k + 1]]
       IN  <<body[m]>> \o ObjectValues(rest)

\* the predicate handed to find
IsOutdoorTemperature(sensor) ==
  /\ sensor.type = "ZLLTemperature"
  /\ includes(toLowerCase(sensor.name), Outdoor)

\* Array.prototype.find: the first element that satisfies the predicate
find(values) ==
  LET hits == {k \in 1..Len(values) : IsOutdoorTemperature(values[k])}
  IN  IF hits = {} THEN null
      ELSE Some(values[CHOOSE k \in hits : \A j \in hits : k <= j])

\* temperatureSensor.state.temperature / 100 as an exact quotient
Quotient(raw) == [num |-> raw, den |-> TemperatureScale]

\* the try block of fetchTemperature after the awaits: Some(reading) when
\* setTemperatureData is reached, null when an Error is thrown
Decode(r) ==
  IF r.kind # "ok" THEN null
  ELSE LET temperatureSensor == find(ObjectValues(r.body)) IN
       IF temperatureSensor # null /\ temperatureSensor[1].temperature # null
         THEN Some([temperature |-> Quotient(temperatureSensor[1].temperature[1]),
                    sensorName |-> temperatureSensor[1].name])
         ELSE null

\* the sensors responses the widget is driven with
ScenarioA == <<Member3(1, [type |-> "ZLLTemperature", name |-> NameOutdoorSensor,
                          temperature |-> Some(2150)])>>
NoOutdoor == <<Member3(1, [type |-> "ZLLTemperature", name |-> NameHallway,
                          temperature |-> Some(2150)]),
               Member3(2, [type |-> "ZLLPresence", name |-> NameOutdoorSensor,
                          temperature |-> null])>>
NullFirst == <<Member3(3, [type |-> "ZLLTemperature", name |-> NameGardenOutdoor,
                          temperature |-> null]),
               Member3(4, [type |-> "ZLLTemperature", name |-> NameOutdoorSensor,
                          temperature |-> Some(-550)])>>
Frost == <<Member3(7, [type |-> "ZLLTemperature", name |-> NameGardenOutdoor,
                      temperature |-> Some(-550)])>>

\* what awaiting fetch()/response.json() of GET .../sensors yields
PollResponses ==
  {[kind |-> "reject", body |-> <<>>], [kind |-> "status", body |-> <<>>],
   [kind |-> "badjson", body |-> <<>>]}
  \cup {[kind |-> "ok", body |-> b] : b \in {<<>>, ScenarioA, NoOutdoor, NullFirst, Frost}}

\* ---------------------------------------------------- TemperatureWidget
\* variant: JSON.parse(savedConfig || '{}') is always stored
LoadedConfigDefault(savedConfig) ==
  Some(JSONparse(IF savedConfig # null THEN savedConfig[1] ELSE <<>>))

\* the first effect: the value handed to setConfig, or the old state
LoadedConfig(savedConfig) ==
  IF savedConfig # null THEN Some(JSONparse(savedConfig[1])) ELSE null

ConfigLoadEffect ==
  /\ page = "widget"
  /\ phase = "load"
  /\ config' = LoadedConfig(hueConfig)
  /\ phase' = "effect"
  /\ UNCHANGED <<page, hueConfig, toast, lastCall, setupVars, temperatureData,
                 isConnected, isLoading, interval, polls, issued, lastPoll>>

\* fetchTemperature up to its first await: the request is sent
fetchTemperature ==
  IF config = null
    THEN UNCHANGED <<isLoading, polls, issued>>
    ELSE /\ isLoading' = TRUE
         /\ polls' = polls \cup {issued + 1}
         /\ issued' = issued + 1

\* variant: the timer is armed without the immediate fetchTemperature()
PollingEffectNoImmediate ==
  /\ page = "widget"
  /\ phase = "effect"
  /\ IF config # null
       THEN interval' = TRUE /\ UNCHANGED <<isLoading, polls, issued>>
       ELSE UNCHANGED <<isLoading, polls, issued, interval>>
  /\ phase' = "ready"
  /\ UNCHANGED <<page, hueConfig, toast, lastCall, setupVars, config,
                 temperatureData, isConnected, lastPoll>>

\* the second effect, run for the render in which config was set
PollingEffect ==
  /\ page = "widget"
  /\ phase = "effect"
  /\ IF config # null
       THEN fetchTemperature /\ interval' = TRUE
       ELSE UNCHANGED <<isLoading, polls, issued, interval>>
  /\ phase' = "ready"
  /\ UNCHANGED <<page, hueConfig, toast, lastCall, setupVars, config,
                 temperatureData, isConnected, lastPoll>>

\* the setInterval callback, every 30 seconds
Tick ==
  /\ page = "widget"
  /\ interval
  /\ issued < MaxPolls
  /\ fetchTemperature
  /\ UNCHANGED <<page, hueConfig, toast, lastCall, setupVars, config,
                 temperatureData, isConnected, phase, interval, lastPoll>>

\* variant: the button is also disabled while disconnected
RefreshEnabledOnlyConnected ==
  /\ page = "widget"
  /\ phase = "ready"
  /\ config # null
  /\ ~(isLoading \/ config = null \/ ~isConnected)

\* <Button onClick={fetchTemperature} disabled={isLoading || !config}>
RefreshEnabled ==
  /\ page = "widget"
  /\ phase = "ready"
  /\ config # null
  /\ ~(isLoading \/ config = null)

Refresh ==
  /\ RefreshEnabled
  /\ issued < MaxPolls
  /\ fetchTemperature
  /\ UNCHANGED <<page, hueConfig, toast, lastCall, setupVars, config,
                 temperatureData, isConnected, phase, interval, lastPoll>>

\* variant: the catch block also clears the reading
SettledClearsReading(reading, previous) ==
  IF reading # null
    THEN [temperatureData |-> reading, isConnected |-> TRUE]
    ELSE [temperatureData |-> null, isConnected |-> FALSE]

\* variant: the catch block leaves isConnected alone
SettledKeepsConnected(reading, previous) ==
  IF reading # null
    THEN [temperatureData |-> reading, isConnected |-> TRUE]
    ELSE previous

\* the state fetchTemperature leaves behind: the try block sets the reading
\* and isConnected = true, the catch block only sets isConnected = false
Settled(reading, previous) ==
  IF reading # null
    THEN [temperatureData |-> reading, isConnected |-> TRUE]
    ELSE [temperatureData |-> previous.temperatureData, isConnected |-> FALSE]

\* fetchTemperature after its awaits, for request p: try, catch and finally
fetchTemperatureDone(p, r) ==
  /\ page = "widget"
  /\ p \in polls
  /\ polls' = polls \ {p}
  /\ LET reading == Decode(r)
         after == Settled(reading, [temperatureData |-> temperatureData,
                                    isConnected |-> isConnected])
     IN  /\ temperatureData' = after.temperatureData
         /\ isConnected' = after.isConnected
         /\ IF reading # null
              THEN lastCall' = "ok" /\ UNCHANGED toast
              ELSE lastCall' = "failed" /\ toast' = "Connection Error"
  /\ isLoading' = FALSE
  /\ lastPoll' = [id |-> p, response |-> r]
  /\ UNCHANGED <<page, hueConfig, setupVars, config, phase, interval, issued>>

\* the Setup Hue Bridge and settings buttons: window.location.href = '/setup'
beginSetup ==
  /\ page = "widget"
  /\ phase = "ready"
  /\ LoadPage("setup")

\* -------------------------------------------------------- specification
Next ==
  \/ \E v \in BridgeAddresses \cup {""} : SetBridgeIp(v)
  \/ discoverBridge
  \/ \E r \in DiscoveryResponses : discoverBridgeDone(r)
  \/ startPairing
  \/ \E i \in 1..MaxSessions, r \in RegistrationResponses : pollForUserResponse(i, r)
  \/ \E i \in 1..MaxSessions : retryTimer(i)
  \/ completePairing
  \/ back
  \/ ConfigLoadEffect
  \/ PollingEffect
  \/ Tick
  \/ Refresh
  \/ \E p \in 1..MaxPolls, r \in PollResponses : fetchTemperatureDone(p, r)
  \/ beginSetup

Spec == Init /\ [][Next]_vars

\* ------------------------------------------- decoding of sensors responses
\* every sensors body of at most MaxSensors members with distinct ids
SensorIds == 1..MaxSensors
SensorMembers ==
  [id : SensorIds, type : {"ZLLTemperature", "ZLLPresence"},
   name : SensorNames, temperature : {null, Some(2150), Some(-550)}]
Bodies ==
  UNION {{b \in [1..n -> SensorMembers] :
            \A j, k \in 1..n : j # k => b[j].id # b[k].id} : n \in 0..MaxSensors}
SensorResponses == {[kind |-> "ok", body |-> b] : b \in Bodies}

PairedText == JSONstringify([bridgeIp |-> "192.168.1.10", username |-> "abc123"])

\* the paired widget with its first poll in flight, or with a refresh in
\* flight after a first poll that read Frost
InitDecode ==
  /\ page = "widget"
  /\ hueConfig = Some(PairedText)
  /\ toast = ""
  /\ lastCall = "ok"
  /\ SetupInitial
  /\ config = LoadedConfig(hueConfig)
  /\ phase = "ready"
  /\ interval = TRUE
  /\ isLoading = TRUE
  /\ \/ /\ issued = 1 /\ polls = {1}
        /\ lastPoll = NoPoll /\ temperatureData = null /\ isConnected = FALSE
     \/ /\ issued = 2 /\ polls = {2}
        /\ lastPoll = [id |-> 1, response |-> [kind |-> "ok", body |-> Frost]]
        /\ temperatureData = Decode([kind |-> "ok", body |-> Frost])
        /\ isConnected = TRUE

NextDecode == \E p \in polls, r \in SensorResponses : fetchTemperatureDone(p, r)

SpecDecode == InitDecode /\ [][NextDecode]_vars

\* ------------------------------------------ the lifetime of the setup page
\* the setup page as it is right after it was loaded without credentials
InitPairing ==
  /\ page = "setup"
  /\ hueConfig = null
  /\ toast = ""
  /\ lastCall = "none"
  /\ SetupInitial
  /\ WidgetInitial

NextPairing ==
  \/ \E v \in BridgeAddresses \cup {""} : SetBridgeIp(v)
  \/ discoverBridge
  \/ \E r \in DiscoveryResponses : discoverBridgeDone(r)
  \/ startPairing
  \/ \E i \in 1..MaxSessions, r \in RegistrationResponses : pollForUserResponse(i, r)
  \/ \E i \in 1..MaxSessions : retryTimer(i)
  \/ completePairing
  \/ back

\* every registration request is answered or fails, and every armed retry
\* timer fires
SpecPairing ==
  /\ InitPairing
  /\ [][NextPairing]_vars
  /\ WF_vars(\E i \in 1..MaxSessions, r \in RegistrationResponses :
                pollForUserResponse(i, r))
  /\ WF_vars(\E i \in 1..MaxSessions : retryTimer(i))

\* ------------------------------------------------- reference predicates
\* classification of a registration answer as the specification words it
RefUsername(r) ==
  /\ r.kind = "json"
  /\ Len(r.body) > 0
  /\ r.body[1].username \notin {null, Some("")}

Ref101(r) ==
  /\ r.kind = "json"
  /\ Len(r.body) > 0
  /\ r.body[1].errorType = Some(101)
  /\ ~RefUsername(r)

RefOther(r) == r.kind # "none" /\ ~RefUsername(r) /\ ~Ref101(r)

SessionSet == {sessions[i] : i \in 1..Len(sessions)}

\* the names of SensorNames whose lower-cased form contains "outdoor"
OutdoorNames == {NameOutdoorSensor, NameGardenOutdoor}

RefMatches(m) == m.type = "ZLLTemperature" /\ m.name \in OutdoorNames

\* the matching member that comes first in the response text
RefFirstInResponse(body) ==
  LET hits == {k \in 1..Len(body) : RefMatches(body[k])}
  IN  IF hits = {} THEN null
      ELSE Some(body[CHOOSE k \in hits : \A j \in hits : k <= j])

\* the matching member with the least sensor id
RefFirstById(body) ==
  LET hits == {k \in 1..Len(body) : RefMatches(body[k])}
  IN  IF hits = {} THEN null
      ELSE Some(body[CHOOSE k \in hits : \A j \in hits : body[k].id <= body[j].id])

\* the poll answered by r succeeds
RefSucceeds(r) ==
  /\ r.kind = "ok"
  /\ RefFirstById(r.body) # null
  /\ RefFirstById(r.body)[1].temperature # null

\* the widget shows what the rule `first` prescribes for the body polled last
ShowsRule(first) ==
  IF first = null \/ first[1].temperature = null
    THEN /\ ~isConnected
         /\ toast = "Connection Error"
         /\ temperatureData =
              IF lastPoll.id = 1 THEN null
              ELSE Some([temperature |-> [num |-> -550, den |-> 100],
                         sensorName |-> NameGardenOutdoor])
    ELSE /\ isConnected
         /\ temperatureData # null
         /\ temperatureData[1].sensorName = first[1].name
         /\ temperatureData[1].temperature.num * 100
              = first[1].temperature[1] * temperatureData[1].temperature.den

\* ---------------------------------------------------------------- claims
\* C1: in every pairing session attempts (and requests sent) never exceed
\* maxAttempts, and the session is TimedOut exactly when it sent 30
\* registration requests and all 30 were answered with error type 101.
C1_AttemptsBoundedTimedOutIff101 ==
  \A s \in SessionSet :
    /\ s.attempts <= maxAttempts
    /\ s.requests <= maxAttempts
    /\ s.state = "TimedOut" <=> (s.requests = maxAttempts /\ s.n101 = maxAttempts)

C1_Witness == \E s \in SessionSet : s.state = "TimedOut" /\ s.n101 = 30

\* C2: a session whose last answer is neither success.username nor error
\* 101 is in HardError, whatever its attempt count, the input step is shown
\* again, and it has no request in flight, no timer armed and sent no request
\* beyond the one that was answered.
C2_OtherAnswerIsHardError ==
  \A s \in SessionSet :
    RefOther(s.response) =>
      /\ s.state = "HardError"
      /\ step = "input"
      /\ s.inflight = 0 /\ s.timers = 0
      /\ s.requests = s.n101 + 1

C2_Witness ==
  \E s \in SessionSet :
    RefOther(s.response) /\ s.state = "HardError" /\ s.requests = maxAttempts

\* C3: a session whose k-th answer, after k-1 answers 101, carries
\* success.username = u is in Success(u): the success step is shown with u,
\* the credentials {address of the session, u} are stored, and no further
\* request or timer exists; for k = 30 it is Success, not TimedOut.
C3_UsernameAnswerIsSuccess ==
  \A s \in SessionSet :
    RefUsername(s.response) =>
      /\ s.state = "Success"
      /\ step = "success"
      /\ username = s.response.body[1].username[1]
      /\ hueConfig = Some(JSONstringify(
            [bridgeIp |-> s.ip, username |-> s.response.body[1].username[1]]))
      /\ s.inflight = 0 /\ s.timers = 0
      /\ s.requests = s.n101 + 1

C3_Witness ==
  \E s \in SessionSet :
    s.state = "Success" /\ s.n101 = maxAttempts - 1 /\ s.requests = maxAttempts

\* C4: the Telemetry Poller never has two sensor requests in flight at the
\* same time (a tick or refresh during a poll issues no request).
C4_AtMostOnePollInFlight == Cardinality(polls) <= 1

\* C5: a step in which a poll completes and fails leaves temperatureData
\* exactly as it was and sets isConnected to false.
C5_FailedPollKeepsReading ==
  [][(lastPoll' # lastPoll /\ lastPoll'.id # 0 /\ ~RefSucceeds(lastPoll'.response))
       => (temperatureData' = temperatureData /\ isConnected' = FALSE)]_vars

C5_Witness ==
  /\ lastPoll.id > 1
  /\ ~RefSucceeds(lastPoll.response)
  /\ temperatureData # null
  /\ ~isConnected

\* C6: whenever a startPairing call or a navigation supersedes the pairing
\* sessions of the page, none of them has a retry timer armed or a request
\* in flight, so nothing of a superseded session can act afterwards.
C6_SupersededSessionsAreOver ==
  [][(started' # started \/ page' # page)
       => \A s \in SessionSet : s.inflight = 0 /\ s.timers = 0]_vars

C6_Witness ==
  /\ started = 2
  /\ Len(sessions) = 1
  /\ sessions[1].requests > 1
  /\ sessions[1].inflight = 1

\* C7: while localStorage holds no credentials no sensor request has been
\* issued and none is in flight.
C7_NoCredentialsNoPoll == hueConfig = null => (issued = 0 /\ polls = {})

C7_Witness == hueConfig = null /\ page = "widget" /\ phase = "ready"

Complete(c) ==
  /\ c.bridgeIp # null /\ c.bridgeIp[1] # ""
  /\ c.username # null /\ c.username[1] # ""

C9_NoPartialCredentials ==
  /\ hueConfig # null => Complete(JSONparse(hueConfig[1]))
  /\ config # null => Complete(config[1])

C9_Witness == hueConfig # null /\ config # null /\ page = "widget"

\* C10 as stated: the poll shows the first matching sensor in response
\* order: failure when there is none or its temperature is null, else the
\* reading raw/100 under that sensor's name.
C10_FirstInResponseOrder ==
  polls = {} => ShowsRule(RefFirstInResponse(lastPoll.response.body))

\* C10 amended: the same with the first matching sensor taken in
\* Object.values order, i.e. by ascending sensor id.
C10_FirstById ==
  polls = {} => ShowsRule(RefFirstById(lastPoll.response.body))

C10_Witness ==
  /\ polls = {}
  /\ Len(lastPoll.response.body) = 2
  /\ RefMatches(lastPoll.response.body[1])
  /\ RefMatches(lastPoll.response.body[2])
  /\ lastPoll.response.body[1].temperature = null
  /\ lastPoll.response.body[2].temperature # null
  /\ lastPoll.response.body[1].id < lastPoll.response.body[2].id
  /\ ~isConnected

\* C11: a discoverBridge call sends exactly one request and its completion
\* sends none; a non-empty list makes the first entry the candidate address,
\* a failure or an empty list shows a not-found toast and leaves the
\* candidate unchanged; neither step writes the stored credentials.
C11_DiscoverOnceNoPersist ==
  [][/\ discovery' > discovery =>
          /\ discovery = 0 /\ discovery' = 1
          /\ hueConfig' = hueConfig /\ bridgeIp' = bridgeIp
     /\ (discovery' < discovery /\ page' = page) =>
          /\ discovery' = discovery - 1
          /\ hueConfig' = hueConfig
          /\ IF lastDiscovery'.kind = "json" /\ Len(lastDiscovery'.body) > 0
               THEN bridgeIp' = lastDiscovery'.body[1] /\ toast' = "Bridge Found"
               ELSE /\ bridgeIp' = bridgeIp
                    /\ toast' \in {"No Bridge Found", "Discovery Failed"}]_vars

C11_Witness ==
  /\ lastDiscovery.kind = "json"
  /\ Len(lastDiscovery.body) = 2
  /\ bridgeIp = lastDiscovery.body[1]
  /\ toast = "Bridge Found"
  /\ discovery = 0

\* C12: the polling effect that starts the poller sends poll 1 at once and
\* arms the timer in the same step; every later request is sent one at a
\* time while the timer is armed; a poller that is not started, or was torn
\* down, has sent nothing and has nothing in flight.
C12_ImmediatePollThenTicks ==
  [][/\ (phase = "effect" /\ phase' = "ready" /\ config # null) =>
          (~interval /\ interval' /\ issued' = 1 /\ polls' = {1})
     /\ issued' > issued => (issued' = issued + 1 /\ interval')
     /\ ~interval' => (issued' = 0 /\ polls' = {})]_vars

C12_Witness == page = "widget" /\ interval /\ issued = 2 /\ polls = {1, 2}

\* C13: the step in which a poll fails leaves isLoading false and the
\* refresh button enabled; the step in which a session ends TimedOut or
\* HardError shows the input form again with the connect button enabled; the
\* step in which a discovery fails ends isConnecting and changes neither the
\* form nor the candidate address.
C13_NoErrorIsFatal ==
  [][/\ (lastPoll' # lastPoll /\ lastPoll'.id # 0
          /\ ~RefSucceeds(lastPoll'.response))
          => (~isLoading' /\ RefreshEnabled')
     /\ \A i \in 1..Len(sessions) :
          (/\ i <= Len(sessions')
           /\ sessions[i].state = "AwaitingButtonPress"
           /\ sessions'[i].state \in {"TimedOut", "HardError"})
          => (step' = "input" /\ ConnectEnabled')
     /\ (discovery' < discovery /\ page' = page
          /\ ~(lastDiscovery'.kind = "json" /\ Len(lastDiscovery'.body) > 0))
          => (~isConnecting' /\ step' = step /\ bridgeIp' = bridgeIp)]_vars

C13_Witness ==
  /\ lastPoll.id # 0
  /\ ~RefSucceeds(lastPoll.response)
  /\ polls = {}
  /\ RefreshEnabled

\* C14: a session never has more than one request in flight or timer armed
\* in total, and the requests it sent are the answers it has seen plus the
\* request in flight.
C14_AttemptsSequential ==
  \A s \in SessionSet :
    /\ s.inflight + s.timers <= 1
    /\ s.requests = s.n101 + s.inflight
          + (IF s.response.kind # "none" /\ ~Ref101(s.response) THEN 1 ELSE 0)

C14_Witness == \E s \in SessionSet : s.timers = 1 /\ s.requests = 2

\* C15: a step that changes the stored credentials is a step in which a
\* session goes from AwaitingButtonPress to Success.
C15_OnlySuccessWritesStore ==
  [][hueConfig' # hueConfig =>
       \E i \in 1..Len(sessions) :
         /\ i <= Len(sessions')
         /\ sessions[i].state = "AwaitingButtonPress"
         /\ sessions'[i].state = "Success"]_vars

C15_Witness ==
  /\ hueConfig # null
  /\ page = "setup"
  /\ lastDiscovery.kind = "json" /\ Len(lastDiscovery.body) > 0
  /\ \E s \in SessionSet : s.state \in {"TimedOut", "HardError"}

\* C16: the session a startPairing call creates has attempts = 0, has seen
\* no answer and has sent its first request only, whatever came before.
C16_AttemptsResetPerSession ==
  [][started' = started + 1 =>
       /\ sessions'[Len(sessions')].attempts = 0
       /\ sessions'[Len(sessions')].n101 = 0
       /\ sessions'[Len(sessions')].requests = 1]_vars

C16_Witness ==
  \E s \in SessionSet :
    s.after = "TimedOut" /\ s.state = "TimedOut" /\ s.requests = maxAttempts

\* C17: under the fairness of SpecPairing a session that is in
\* AwaitingButtonPress leads to all sessions being in Success, TimedOut or
\* HardError with at most maxAttempts requests sent.
Awaiting == \E s \in SessionSet : s.state = "AwaitingButtonPress"

Ended ==
  /\ sessions # <<>>
  /\ \A s \in SessionSet :
       /\ s.state \in {"Success", "TimedOut", "HardError"}
       /\ s.requests <= maxAttempts

C17_SessionTerminates == Awaiting ~> Ended

C17_Witness ==
  /\ step = "input"
  /\ toast = "Pairing Timeout"
  /\ Ended
  /\ \E s \in SessionSet : s.state = "TimedOut" /\ s.attempts = maxAttempts

\* C18: while a session is in Success(u) the stored text parses to exactly
\* {bridgeIp: the address captured by that session, username: u}, also when
\* a discovery changed the candidate address meanwhile; and the config the
\* widget loaded is the parse of the stored text.
C18_StoredCredentialsAreTheSessions ==
  /\ \A s \in SessionSet :
       s.state = "Success" =>
         /\ hueConfig # null
         /\ JSONparse(hueConfig[1]) =
              [bridgeIp |-> Some(s.ip), username |-> s.response.body[1].username]
  /\ (page = "widget" /\ phase # "load") =>
       config = IF hueConfig = null THEN null ELSE Some(JSONparse(hueConfig[1]))

C18_Witness ==
  \E s \in SessionSet :
    /\ s.state = "Success"
    /\ bridgeIp # s.ip
    /\ lastDiscovery.kind = "json" /\ Len(lastDiscovery.body) > 0

\* C19: isLoading is true exactly when a sensor request is in flight.
C19_LoadingIffPollInFlight == isLoading <=> polls # {}

\* C20: the poll whose result is shown is the most recently started one
\* among the polls that have completed.
C20_LatestStartedPollWins ==
  lastPoll.id # 0 => \A p \in (1..issued) \ polls : p <= lastPoll.id

====
